---------------------------- MODULE Spec2Model ----------------------------
(***************************************************************************)
(* Model of ComputeMachineImages (machineimages/machine_images.go).        *)
(*                                                                         *)
(* A MachineImageVersion is a Go map, i.e. a reference: the flat OsImage   *)
(* entries, the grouped MachineImages and the returned list all point to   *)
(* the map objects of the caller's catalogs.  The four catalog variables   *)
(* hold the CURRENT contents of the caller's objects; a map object is      *)
(* identified by its place (catalog, image index, version index), and the  *)
(* inputs enumerated here hold no map object twice.                        *)
(* A version record is a TLA+ function from a set of keys to values, a     *)
(* pointer is a sequence of length 0 (nil) or 1.                           *)
(***************************************************************************)
EXTENDS Integers, Sequences, FiniteSets, TLC

VARIABLES
    landscapeOsImages,          \* caller's landscape catalog (current contents)
    lssOsImages,                \* caller's LSS catalog (current contents)
    providerOsImages,           \* caller's provider-global catalog
    providerLandscapeOsImages,  \* caller's provider-landscape catalog
    disableMachineImages,       \* list of disabled image names
    includeFilters,             \* list of filter kinds
    excludeFilters,             \* list of filter kinds
    kindNames,                  \* the names the non-All filter kind matches
    calls,                      \* number of calls made so far
    result,                     \* the list returned by the last call
    resultIsNil,                \* the last call returned a nil list
    err,                        \* "none", "ConflictingFilters" or "panic"
    pre,                        \* the four catalogs as they were when the last call started
    prev,                       \* what the call before the last one returned
    flatAfter,                  \* last call: flat list after filterOsImages
    dedupDone,                  \* deduplication harness: removeDuplicates has run
    dedupIn,                    \* deduplication harness: the input list
    dedupOut,                   \* deduplication harness: removeDuplicates(dedupIn)
    dedupTwice                  \* deduplication harness: removeDuplicates(dedupOut)

vars == <<landscapeOsImages, lssOsImages, providerOsImages, providerLandscapeOsImages,
          disableMachineImages, includeFilters, excludeFilters, kindNames,
          calls, result, resultIsNil, err, pre, prev, flatAfter,
          dedupDone, dedupIn, dedupOut, dedupTwice>>

callVars == <<landscapeOsImages, lssOsImages, providerOsImages, providerLandscapeOsImages,
              disableMachineImages, includeFilters, excludeFilters, kindNames,
              calls, result, resultIsNil, err, pre, prev, flatAfter>>

dedupVars == <<dedupDone, dedupIn, dedupOut, dedupTwice>>

-----------------------------------------------------------------------------
(* Bounds *)

MaxImages == 2      \* images per landscape catalog in the ordering inputs
MaxVersions == 1    \* versions per landscape image in the enrichment inputs
MaxCalls == 2       \* successive calls on the same argument objects
MaxFlat == 3        \* length of the lists of the deduplication harness

-----------------------------------------------------------------------------
(* Strings.  Go compares strings bytewise; Bytes gives the bytes of each name. *)

OsNameGardenLinux == "GardenLinux"

Names == {"CoreOS", "GardenLinux", "Ubuntu"}

Bytes(s) ==
    CASE s = "CoreOS"      -> <<67, 111, 114, 101, 79, 83>>
      [] s = "GardenLinux" -> <<71, 97, 114, 100, 101, 110, 76, 105, 110, 117, 120>>
      [] s = "Ubuntu"      -> <<85, 98, 117, 110, 116, 117>>

Min(a, b) == IF a < b THEN a ELSE b

\* a < b on Go strings
StrLess(a, b) ==
    LET x == Bytes(a)
        y == Bytes(b)
        n == Min(Len(x), Len(y))
        diff == {i \in 1..n : x[i] # y[i]}
    IN  IF diff = {}
        THEN Len(x) < Len(y)
        ELSE LET i == CHOOSE i \in diff : \A j \in diff : i <= j
             IN  x[i] < y[i]

-----------------------------------------------------------------------------
(* Types *)

VersionKey == "version"

\* MachineImageVersion.getVersion(): pointer to the version identifier, nil if absent
getVersion(v) == IF VersionKey \in DOMAIN v THEN <<v[VersionKey]>> ELSE <<>>

OsImagesFilterKindAll == "All"
OsImagesFilterKindOther == "Other"

\* does a filter kind match a flat image
Matches(kind, image, kn) == kind = OsImagesFilterKindAll \/ image.Name \in kn

Range(s) == {s[i] : i \in DOMAIN s}

-----------------------------------------------------------------------------
(* Helpers of ComputeMachineImages *)

\* mutant: the two lists are compared place by place
validateFiltersSamePlace(inc, exc) ==
    IF \E i \in DOMAIN inc : i \in DOMAIN exc /\ inc[i] = exc[i]
    THEN "ConflictingFilters"
    ELSE "none"

validateFilters(inc, exc) ==
    IF \E i \in DOMAIN inc : \E j \in DOMAIN exc : inc[i] = exc[j]
    THEN "ConflictingFilters"
    ELSE "none"

contains(s, str) == \E i \in DOMAIN s : s[i] = str

RECURSIVE Concat(_)
Concat(ss) == IF ss = <<>> THEN <<>> ELSE Head(ss) \o Concat(Tail(ss))

\* one OsImage per (image, version), in source order.  ref is the map object the
\* Version field points to; Version is the object's contents when flattened.
flatImages(cat, images) ==
    Concat([i \in DOMAIN images |->
              [j \in DOMAIN images[i].Versions |->
                 [Name |-> images[i].Name,
                  Version |-> images[i].Versions[j],
                  ref |-> [cat |-> cat, img |-> i, ver |-> j]]]])

\* reflect.DeepEqual on two OsImage values: the name and the map contents
DeepEqual(a, b) == a.Name = b.Name /\ a.Version = b.Version

RECURSIVE removeDuplicatesFrom(_, _)
removeDuplicatesFrom(images, res) ==
    IF images = <<>> THEN res
    ELSE LET nextImage == Head(images)
             found == \E k \in DOMAIN res : DeepEqual(nextImage, res[k])
         IN  removeDuplicatesFrom(Tail(images),
                                  IF found THEN res ELSE Append(res, nextImage))

\* mutant: no entry is ever found among the results
removeDuplicatesKeepAll(images) == images

removeDuplicates(images) == removeDuplicatesFrom(images, <<>>)


\* filterOsImages: an entry survives when some include kind matches it and no
\* exclude kind does.  It reports no error of its own.
filterOsImages(images, inc, exc, kn) ==
    SelectSeq(images,
              LAMBDA e : /\ \E i \in DOMAIN inc : Matches(inc[i], e, kn)
                         /\ ~ \E j \in DOMAIN exc : Matches(exc[j], e, kn))

\* The map m of convertOsImagesToMachineImages has one key per distinct name; the
\* versions of a name are in first-seen order.  Go ranges over a map in an
\* unspecified order: order is the order this run happens to take.
MapKeys(images) == {images[i].Name : i \in DOMAIN images}

MapOrders(images) ==
    {o \in [1..Cardinality(MapKeys(images)) -> MapKeys(images)] :
        \A i, j \in DOMAIN o : i # j => o[i] # o[j]}

convertOsImagesToMachineImages(images, order) ==
    [k \in DOMAIN order |->
        [Name |-> order[k],
         Versions |-> SelectSeq(images, LAMBDA e : e.Name = order[k])]]

\* mutant: the second pass compares names like the first
lessByNameOnly(pass, a, b) == StrLess(a.Name, b.Name)

\* the two comparison functions handed to sort.SliceStable
less(pass, a, b) ==
    IF pass = "name"
    THEN StrLess(a.Name, b.Name)
    ELSE a.Name = OsNameGardenLinux /\ b.Name # OsNameGardenLinux

Swap(s, i, j) == [s EXCEPT ![i] = s[j], ![j] = s[i]]

\* sort.SliceStable on fewer than 20 elements is one insertion sort:
\*   for i := 1; i < n; i++ { for j := i; j > 0 && less(j, j-1); j-- { swap(j, j-1) } }
RECURSIVE insertionInner(_, _, _)
insertionInner(s, j, pass) ==
    IF j > 1 /\ less(pass, s[j], s[j - 1])
    THEN insertionInner(Swap(s, j, j - 1), j - 1, pass)
    ELSE s

RECURSIVE insertionSort(_, _, _)
insertionSort(s, i, pass) ==
    IF i > Len(s) THEN s ELSE insertionSort(insertionInner(s, i, pass), i + 1, pass)

SliceStable(s, pass) == insertionSort(s, 2, pass)

RECURSIVE getVersionConfigInternalAnyName(_, _, _)
RECURSIVE getVersionConfigInternalFrom(_, _, _)
getVersionConfigInternalFrom(imageName, versionNumber, versions) ==
    IF versions = <<>> THEN <<>>
    ELSE IF getVersion(Head(versions)) # <<>> /\ getVersion(Head(versions))[1] = versionNumber
         THEN <<Head(versions)>>
         ELSE getVersionConfigInternalFrom(imageName, versionNumber, Tail(versions))

\* pointer to the first version record of images with this name and identifier, or nil
RECURSIVE getVersionConfigInternal(_, _, _)

\* mutant: the image name is not compared
getVersionConfigInternalAnyName(imageName, versionNumber, images) ==
    IF images = <<>> THEN <<>>
    ELSE LET here == getVersionConfigInternalFrom(imageName, versionNumber,
                                                  Head(images).Versions)
         IN  IF here # <<>> THEN here
             ELSE getVersionConfigInternalAnyName(imageName, versionNumber, Tail(images))

getVersionConfigInternal(imageName, versionNumber, images) ==
    IF images = <<>> THEN <<>>
    ELSE LET here == IF Head(images).Name = imageName
                     THEN getVersionConfigInternalFrom(imageName, versionNumber,
                                                       Head(images).Versions)
                     ELSE <<>>
         IN  IF here # <<>> THEN here
             ELSE getVersionConfigInternal(imageName, versionNumber, Tail(images))

\* mutant: the provider-global catalog is asked first
getVersionConfigGlobalFirst(imageName, versionNumber, providerLandscape, provider) ==
    LET config == getVersionConfigInternal(imageName, versionNumber, provider)
    IN  IF config # <<>> THEN config
        ELSE getVersionConfigInternal(imageName, versionNumber, providerLandscape)

getVersionConfig(imageName, versionNumber, providerLandscape, provider) ==
    LET config == getVersionConfigInternal(imageName, versionNumber, providerLandscape)
    IN  IF config # <<>> THEN config
        ELSE getVersionConfigInternal(imageName, versionNumber, provider)

\* for nextKey, nextValue := range *config { nextVersion[nextKey] = nextValue }
Merge(version, config) ==
    [k \in DOMAIN version \cup DOMAIN config |->
        IF k \in DOMAIN config THEN config[k] ELSE version[k]]

\* the loop over nextImage.Versions.  acc.panic: versionNumber was nil when
\* dereferenced (line 83), the goroutine panics and the loop goes no further.
\* acc.writes: the map objects assigned to, with their new contents.
RECURSIVE enrichVersions(_, _, _, _, _)
enrichVersions(name, versions, providerLandscape, provider, acc) ==
    IF versions = <<>> THEN acc
    ELSE LET nextVersion == Head(versions)
             versionNumber == getVersion(nextVersion.Version)
         IN  IF versionNumber = <<>>
             THEN [acc EXCEPT !.panic = TRUE]
             ELSE LET config == getVersionConfig(name, versionNumber[1],
                                                 providerLandscape, provider)
                  IN  IF config # <<>>
                      THEN LET merged == Merge(nextVersion.Version, config[1])
                           IN  enrichVersions(name, Tail(versions), providerLandscape, provider,
                                   [acc EXCEPT !.out = Append(@, merged),
                                               !.writes = Append(@, [ref |-> nextVersion.ref,
                                                                     val |-> merged])])
                      ELSE enrichVersions(name, Tail(versions), providerLandscape, provider, acc)

\* mutant: the disable list is not looked at
isDisabledNever(disable, name) == FALSE

isDisabled(disable, name) == contains(disable, name)

keepImage(versionsWithConfig) == Len(versionsWithConfig) > 0

RECURSIVE getFilteredMachineImagesFrom(_, _, _, _, _)
getFilteredMachineImagesFrom(machineImages, disable, providerLandscape, provider, acc) ==
    IF machineImages = <<>> \/ acc.panic THEN acc
    ELSE LET nextImage == Head(machineImages)
         IN  IF isDisabled(disable, nextImage.Name)
             THEN getFilteredMachineImagesFrom(Tail(machineImages), disable,
                                               providerLandscape, provider, acc)
             ELSE LET r == enrichVersions(nextImage.Name, nextImage.Versions,
                                          providerLandscape, provider,
                                          [out |-> <<>>, writes |-> acc.writes, panic |-> FALSE])
                      filtered == IF ~r.panic /\ keepImage(r.out)
                                  THEN Append(acc.images,
                                              [Name |-> nextImage.Name, Versions |-> r.out])
                                  ELSE acc.images
                  IN  getFilteredMachineImagesFrom(Tail(machineImages), disable,
                          providerLandscape, provider,
                          [images |-> filtered, writes |-> r.writes, panic |-> r.panic])

getFilteredMachineImages(machineImages, disable, providerLandscape, provider) ==
    getFilteredMachineImagesFrom(machineImages, disable, providerLandscape, provider,
                                 [images |-> <<>>, writes |-> <<>>, panic |-> FALSE])

\* the caller's catalog cat after the assignments in writes
ApplyWrites(cat, images, writes) ==
    [i \in DOMAIN images |->
        [images[i] EXCEPT !.Versions =
            [j \in DOMAIN images[i].Versions |->
                LET here == {k \in DOMAIN writes :
                                writes[k].ref = [cat |-> cat, img |-> i, ver |-> j]}
                IN  IF here = {} THEN images[i].Versions[j]
                    ELSE writes[CHOOSE k \in here : \A l \in here : l <= k].val]]]

-----------------------------------------------------------------------------
(* ComputeMachineImages *)

Returned == [result |-> result, resultIsNil |-> resultIsNil, err |-> err]

Catalogs == [landscape |-> landscapeOsImages, lss |-> lssOsImages,
             provider |-> providerOsImages,
             providerLandscape |-> providerLandscapeOsImages]

ComputeMachineImages ==
    /\ calls < MaxCalls
    /\ calls' = calls + 1
    /\ pre' = Catalogs
    /\ prev' = Returned
    /\ UNCHANGED <<disableMachineImages, includeFilters, excludeFilters, kindNames,
                   providerOsImages, providerLandscapeOsImages, dedupVars>>
    /\ LET inc == IF Len(includeFilters) = 0
                  THEN Append(includeFilters, OsImagesFilterKindAll)
                  ELSE includeFilters
           flatLandscapeOsImages == flatImages("landscape", landscapeOsImages)
           flatLssOsImages == flatImages("lss", lssOsImages)
           flatOsImages == removeDuplicates(flatLandscapeOsImages \o flatLssOsImages)
           filtered == filterOsImages(flatOsImages, inc, excludeFilters, kindNames)
       IN  IF validateFilters(inc, excludeFilters) # "none"
           THEN /\ result' = <<>>
                /\ resultIsNil' = TRUE
                /\ err' = validateFilters(inc, excludeFilters)
                /\ flatAfter' = <<>>
                /\ UNCHANGED <<landscapeOsImages, lssOsImages>>
           ELSE IF Len(filtered) = 0
           THEN /\ result' = <<>>
                /\ resultIsNil' = FALSE
                /\ err' = "none"
                /\ flatAfter' = filtered
                /\ UNCHANGED <<landscapeOsImages, lssOsImages>>
           ELSE \E order \in MapOrders(filtered) :
                  LET machineImages ==
                          SliceStable(SliceStable(
                              convertOsImagesToMachineImages(filtered, order),
                              "name"), "gardenlinux")
                      r == getFilteredMachineImages(machineImages, disableMachineImages,
                               providerLandscapeOsImages, providerOsImages)
                  IN  /\ result' = IF r.panic THEN <<>> ELSE r.images
                      /\ resultIsNil' = r.panic
                      /\ err' = IF r.panic THEN "panic" ELSE "none"
                      /\ flatAfter' = filtered
                      /\ landscapeOsImages' =
                             ApplyWrites("landscape", landscapeOsImages, r.writes)
                      /\ lssOsImages' = ApplyWrites("lss", lssOsImages, r.writes)

-----------------------------------------------------------------------------
(* Inputs *)

SeqsOf(S, lo, hi) == UNION {[1..n -> S] : n \in lo..hi}

ImagesOf(names, records, lo, hi) ==
    {[Name |-> n, Versions |-> vs] : n \in names, vs \in SeqsOf(records, lo, hi)}

CatalogRecords ==
    {[version |-> "1"], [version |-> "1", arch |-> "amd64"],
     [version |-> "2"], [arch |-> "amd64"]}

ProviderRecords ==
    {[version |-> "1", arch |-> "arm64"], [version |-> "1", arch |-> "amd64"],
     [version |-> "2", kernel |-> "5"], [arch |-> "arm64"]}

FilterLists ==
    {<<>>, <<OsImagesFilterKindAll>>, <<OsImagesFilterKindOther>>,
     <<OsImagesFilterKindOther, OsImagesFilterKindAll>>}

FullProvider ==
    <<[Name |-> "Ubuntu", Versions |-> <<[version |-> "1", arch |-> "arm64"]>>],
      [Name |-> "GardenLinux", Versions |-> <<[version |-> "1", arch |-> "arm64"]>>],
      [Name |-> "CoreOS", Versions |-> <<[version |-> "1", arch |-> "arm64"]>>]>>

InitCall ==
    /\ calls = 0
    /\ result = <<>>
    /\ resultIsNil = TRUE
    /\ err = "none"
    /\ pre = Catalogs
    /\ prev = Returned
    /\ flatAfter = <<>>

\* many names in any order, every filter and disable list; every version has config
InitOrdering ==
    /\ landscapeOsImages \in SeqsOf(ImagesOf(Names, {[version |-> "1"]}, 1, 1), 0, MaxImages)
    /\ lssOsImages \in SeqsOf(ImagesOf(Names, {[version |-> "1"]}, 1, 1), 0, 1)
    /\ providerOsImages = FullProvider
    /\ providerLandscapeOsImages = <<>>
    /\ disableMachineImages \in SeqsOf(Names, 0, 1)
    /\ includeFilters \in FilterLists
    /\ excludeFilters \in FilterLists \ {<<OsImagesFilterKindOther, OsImagesFilterKindAll>>}
    /\ kindNames \in {{OsNameGardenLinux}, Names \ {OsNameGardenLinux}}

EnrichNames == {"GardenLinux", "Ubuntu"}

\* every kind of version record and of provider record; default filters
InitEnrichment ==
    /\ landscapeOsImages \in SeqsOf(ImagesOf(EnrichNames, CatalogRecords, 1, MaxVersions), 0, 1)
    /\ lssOsImages \in SeqsOf(ImagesOf({OsNameGardenLinux}, CatalogRecords, 1, 1), 0, 1)
    /\ providerOsImages \in SeqsOf(ImagesOf(EnrichNames, ProviderRecords, 1, 1), 0, 1)
    /\ providerLandscapeOsImages \in SeqsOf(ImagesOf(EnrichNames, ProviderRecords, 1, 1), 0, 1)
    /\ disableMachineImages = <<>>
    /\ includeFilters = <<>>
    /\ excludeFilters = <<>>
    /\ kindNames = {}

Init ==
    /\ InitOrdering \/ InitEnrichment
    /\ InitCall
    /\ dedupDone = FALSE
    /\ dedupIn = <<>>
    /\ dedupOut = <<>>
    /\ dedupTwice = <<>>

Next == ComputeMachineImages

Spec == Init /\ [][Next]_vars

-----------------------------------------------------------------------------
(* Deduplication harness: removeDuplicates applied to every flat list of up to *)
(* MaxFlat entries, and again to its own result.                              *)

DedupRecords == {[version |-> "1"], [version |-> "1", arch |-> "amd64"], [arch |-> "amd64"]}

InitDedup ==
    /\ landscapeOsImages = <<>>
    /\ lssOsImages = <<>>
    /\ providerOsImages = <<>>
    /\ providerLandscapeOsImages = <<>>
    /\ disableMachineImages = <<>>
    /\ includeFilters = <<>>
    /\ excludeFilters = <<>>
    /\ kindNames = {}
    /\ InitCall
    /\ dedupDone = FALSE
    /\ dedupIn \in {flatImages("landscape", c) :
                      c \in SeqsOf(ImagesOf(EnrichNames, DedupRecords, 1, 1), 0, MaxFlat)}
    /\ dedupOut = <<>>
    /\ dedupTwice = <<>>

RunRemoveDuplicates ==
    /\ ~dedupDone
    /\ dedupDone' = TRUE
    /\ dedupOut' = removeDuplicates(dedupIn)
    /\ dedupTwice' = removeDuplicates(removeDuplicates(dedupIn))
    /\ UNCHANGED <<dedupIn, callVars>>

NextDedup == RunRemoveDuplicates

SpecDedup == InitDedup /\ [][NextDedup]_vars

-----------------------------------------------------------------------------
(* Properties *)

Called == calls > 0
Succeeded == calls > 0 /\ err = "none"

\* the version records a catalog holds under a name and a version identifier
RecordsFor(images, name, id) ==
    {v \in UNION {Range(images[i].Versions) :
                    i \in {i \in DOMAIN images : images[i].Name = name}} :
        getVersion(v) = <<id>>}

\* v holds every key of c with c's value
Carries(v, c) == \A k \in DOMAIN c : k \in DOMAIN v /\ v[k] = c[k]

\* the flat entries of the landscape and LSS catalogs as the last call found them
PreFlat == flatImages("landscape", pre.landscape) \o flatImages("lss", pre.lss)

\* C1: when the include list and the exclude list share a kind, the call fails
\* with the conflicting-filters error and returns a nil list.
C1_ConflictingFiltersFail ==
    (Called /\ \E i \in DOMAIN includeFilters : \E j \in DOMAIN excludeFilters :
                   includeFilters[i] = excludeFilters[j])
        => (err = "ConflictingFilters" /\ resultIsNil /\ result = <<>>)

\* a call was made with lists that share a kind at different places
C1_Witness ==
    /\ Called
    /\ err = "ConflictingFilters"
    /\ \E i \in DOMAIN includeFilters : \E j \in DOMAIN excludeFilters :
           i # j /\ includeFilters[i] = excludeFilters[j]

\* C2: after a successful call no image of the output has a name of the disable
\* list, whatever the provider catalogs hold for it.
C2_DisabledNeverInOutput ==
    Succeeded => \A i \in DOMAIN result :
                     ~ \E d \in DOMAIN disableMachineImages :
                           disableMachineImages[d] = result[i].Name

\* a disabled name passed the filter with provider config for its version, and
\* the call returned other images
C2_Witness ==
    /\ Succeeded
    /\ result # <<>>
    /\ \E k \in DOMAIN flatAfter :
          /\ \E d \in DOMAIN disableMachineImages :
                 disableMachineImages[d] = flatAfter[k].Name
          /\ getVersion(flatAfter[k].Version) # <<>>
          /\ RecordsFor(providerOsImages, flatAfter[k].Name,
                        getVersion(flatAfter[k].Version)[1]) # {}

\* C3: every version of the output has a version identifier for which the
\* provider-landscape or the provider-global catalog holds a record under the
\* image's name, and carries the fields of such a record; no image of the output
\* is without versions.
C3_OutputVersionsHaveConfig ==
    Succeeded =>
        \A i \in DOMAIN result :
            /\ Len(result[i].Versions) > 0
            /\ \A j \in DOMAIN result[i].Versions :
                 LET v == result[i].Versions[j]
                 IN  /\ getVersion(v) # <<>>
                     /\ \E c \in RecordsFor(providerLandscapeOsImages, result[i].Name,
                                            getVersion(v)[1])
                                 \cup RecordsFor(providerOsImages, result[i].Name,
                                                 getVersion(v)[1]) :
                            Carries(v, c)

\* the call returned an image, and a filtered (name, version) pair that neither
\* provider catalog holds under that name is held under another name
C3_Witness ==
    /\ Succeeded
    /\ result # <<>>
    /\ \E k \in DOMAIN flatAfter :
          LET e == flatAfter[k]
              id == getVersion(e.Version)[1]
          IN  /\ getVersion(e.Version) # <<>>
              /\ RecordsFor(providerLandscapeOsImages, e.Name, id) = {}
              /\ RecordsFor(providerOsImages, e.Name, id) = {}
              /\ \E n \in Names : RecordsFor(providerOsImages, n, id) # {}
              /\ ~ \E i \in DOMAIN result : result[i].Name = e.Name

\* C4: a version of the output whose (name, identifier) the provider-landscape
\* catalog holds carries the fields of a provider-landscape record; only when the
\* provider-landscape catalog holds none does it carry those of a provider-global
\* record.
C4_LandscapeConfigFirst ==
    Succeeded =>
        \A i \in DOMAIN result : \A j \in DOMAIN result[i].Versions :
            LET v == result[i].Versions[j]
                id == getVersion(v)[1]
                fromLandscape == RecordsFor(providerLandscapeOsImages, result[i].Name, id)
                fromGlobal == RecordsFor(providerOsImages, result[i].Name, id)
            IN  IF fromLandscape # {}
                THEN \E c \in fromLandscape : Carries(v, c)
                ELSE \E c \in fromGlobal : Carries(v, c)

\* both provider catalogs hold a record for a version of the output, and the two
\* records differ
C4_Witness ==
    /\ Succeeded
    /\ \E i \in DOMAIN result : \E j \in DOMAIN result[i].Versions :
          LET id == getVersion(result[i].Versions[j])[1]
          IN  \E a \in RecordsFor(providerLandscapeOsImages, result[i].Name, id) :
              \E b \in RecordsFor(providerOsImages, result[i].Name, id) : a # b

\* C5: in the output GardenLinux, when there, is the first image, and the names
\* of the other images ascend strictly in byte order.
C5_GardenLinuxFirstThenAlphabetical ==
    Succeeded =>
        /\ \A i \in DOMAIN result : result[i].Name = OsNameGardenLinux => i = 1
        /\ \A i, j \in DOMAIN result :
              (i < j /\ result[i].Name # OsNameGardenLinux
                     /\ result[j].Name # OsNameGardenLinux)
                  => StrLess(result[i].Name, result[j].Name)

\* three images came out, GardenLinux ahead of a name that sorts before it, from
\* catalogs that list them in another order
C5_Witness ==
    /\ Succeeded
    /\ Len(result) = 3
    /\ result[1].Name = OsNameGardenLinux
    /\ StrLess(result[2].Name, OsNameGardenLinux)
    /\ Len(pre.landscape) > 1
    /\ pre.landscape[1].Name = "Ubuntu"
    /\ pre.landscape[2].Name = "CoreOS"

\* C6: a catalog version without a version identifier is dropped silently: the
\* call completes without error and its output has no version without identifier.
C6_MissingIdentifierDropped ==
    (/\ Called
     /\ err # "ConflictingFilters"
     /\ \E k \in DOMAIN PreFlat : getVersion(PreFlat[k].Version) = <<>>)
        => /\ err = "none"
           /\ ~resultIsNil
           /\ \A i \in DOMAIN result : \A j \in DOMAIN result[i].Versions :
                  getVersion(result[i].Versions[j]) # <<>>

\* C7: a second call with the same argument objects returns what the first
\* call returned.
C7_RepeatedCallReturnsSame ==
    calls >= 2 => Returned = prev

\* C8: after a call the version records of the four catalogs hold what they
\* held when the call started.
C8_CatalogsUntouched ==
    Called => Catalogs = pre

\* C9: removeDuplicates applied to its own result changes nothing; the result
\* holds no two structurally equal entries and is the list of the first
\* occurrences of the input, in the input's order.
C9_RemoveDuplicatesIdempotent ==
    dedupDone =>
        LET first == {i \in DOMAIN dedupIn :
                         \A j \in 1..(i - 1) : ~DeepEqual(dedupIn[i], dedupIn[j])}
        IN  /\ dedupTwice = dedupOut
            /\ \A i, j \in DOMAIN dedupOut :
                   i # j => ~DeepEqual(dedupOut[i], dedupOut[j])
            /\ Len(dedupOut) = Cardinality(first)
            /\ \A i \in first :
                   dedupOut[Cardinality({j \in first : j <= i})] = dedupIn[i]

\* the input held an entry twice, not side by side, and lost the second
C9_Witness ==
    /\ dedupDone
    /\ Len(dedupIn) >= 3
    /\ Len(dedupOut) = Len(dedupIn) - 1
    /\ \E i, j \in DOMAIN dedupIn : j > i + 1 /\ DeepEqual(dedupIn[i], dedupIn[j])

\* C10 as stated: within an image of the output no two versions are equal and
\* no two carry the same version identifier.
C10_VersionsDistinct ==
    Succeeded =>
        \A i \in DOMAIN result : \A j, k \in DOMAIN result[i].Versions :
            j # k => /\ result[i].Versions[j] # result[i].Versions[k]
                     /\ getVersion(result[i].Versions[j]) # getVersion(result[i].Versions[k])

\* the landscape and LSS catalogs, as the call found them, hold no two records
\* for one (name, version identifier) that differ in another attribute
PreUnambiguous ==
    \A a, b \in DOMAIN PreFlat :
        (/\ PreFlat[a].Name = PreFlat[b].Name
         /\ getVersion(PreFlat[a].Version) = getVersion(PreFlat[b].Version))
            => PreFlat[a].Version = PreFlat[b].Version

\* C10 as amended: when the landscape and LSS catalogs hold no two records for
\* one (name, version identifier) that differ in another attribute, no two
\* versions of an image of the output are equal or carry the same identifier.
C10_VersionsDistinctWhenUnambiguous ==
    (Succeeded /\ PreUnambiguous) => C10_VersionsDistinct

\* both catalogs contributed the same record for a (name, identifier), and that
\* version is in the output
C10_Witness ==
    /\ Succeeded
    /\ PreUnambiguous
    /\ \E a, b \in DOMAIN PreFlat :
          /\ a # b
          /\ PreFlat[a].ref.cat # PreFlat[b].ref.cat
          /\ DeepEqual(PreFlat[a], PreFlat[b])
          /\ \E i \in DOMAIN result :
                /\ result[i].Name = PreFlat[a].Name
                /\ \E j \in DOMAIN result[i].Versions :
                       getVersion(result[i].Versions[j]) = getVersion(PreFlat[a].Version)

=============================================================================
